---- MODULE Spec2Model ----
(***************************************************************************)
(* PeerSync coordinator (src/src/server.py): the Session Directory         *)
(* (active_clients), the Publication Registry (published_files), the       *)
(* liveness sweep and the control loop with its per-message handlers.      *)
(* Text is modelled as sequences of one-character strings so that the      *)
(* parsing the handlers do (strip, split, startswith, join) is computed.   *)
(***************************************************************************)
EXTENDS Integers, Sequences, FiniteSets, TLC

(* ---------------- bounds of the model ---------------- *)

\* the clock runs from 0 to MaxTime seconds
MaxTime == 4

\* the heartbeat emitter sends while fewer than MaxWire datagrams of the peer
\* are on their way to the server
MaxWire == 3

(* ---------------- config.py ---------------- *)

HEARTBEAT_TIMEOUT == 3

MSG_AUTH == <<"a", "u", "t", "h">>

MSG_HEARTBEAT == <<"H", "B", "T">>

MSG_OK == <<"O", "K">>

MSG_ERROR == <<"E", "R", "R">>

MSG_TCP == <<"T", "C", "P">>

CMD_LIST_ACTIVE_PEERS == <<"l", "a", "p">>

CMD_LIST_PUBLISHED_FILES == <<"l", "p", "f">>

CMD_PUBLISH == <<"p", "u", "b">>

CMD_UNPUBLISH == <<"u", "n", "p">>

CMD_SEARCH == <<"s", "c", "h">>

CMD_GET == <<"g", "e", "t">>

CMD_EXIT == <<"x", "i", "t">>

RESP_FILE_PUBLISHED == <<"F", "i", "l", "e", " ", "p", "u", "b", "l", "i", "s", "h", "e", "d", " ", "s", "u", "c", "c", "e", "s", "s", "f", "u", "l", "l", "y">>

RESP_FILE_UNPUBLISHED == <<"F", "i", "l", "e", " ", "u", "n", "p", "u", "b", "l", "i", "s", "h", "e", "d", " ", "s", "u", "c", "c", "e", "s", "s", "f", "u", "l", "l", "y">>

RESP_FILE_UNPUB_FAILED == <<"F", "i", "l", "e", " ", "u", "n", "p", "u", "b", "l", "i", "c", "a", "t", "i", "o", "n", " ", "f", "a", "i", "l", "e", "d">>

RESP_NO_ACTIVE_PEERS == <<"N", "o", " ", "a", "c", "t", "i", "v", "e", " ", "p", "e", "e", "r", "s">>

RESP_NO_PUBLISHED_FILES == <<"N", "o", " ", "p", "u", "b", "l", "i", "s", "h", "e", "d", " ", "f", "i", "l", "e", "s">>

RESP_NO_FILES_FOUND == <<"N", "o", " ", "f", "i", "l", "e", "s", " ", "f", "o", "u", "n", "d">>

RESP_FILE_NOT_FOUND == <<"F", "i", "l", "e", " ", "n", "o", "t", " ", "f", "o", "u", "n", "d">>

RESP_NO_ACTIVE_PEER_HAS_FILE == <<"N", "o", " ", "a", "c", "t", "i", "v", "e", " ", "p", "e", "e", "r", " ", "h", "a", "s", " ", "t", "h", "i", "s", " ", "f", "i", "l", "e">>

(* ---------------- text helpers (Python str methods) ---------------- *)

IsSpace(c) == c = " "

RECURSIVE LStrip(_)
LStrip(s) == IF s # <<>> /\ IsSpace(Head(s)) THEN LStrip(Tail(s)) ELSE s

RECURSIVE RStrip(_)
RStrip(s) ==
    IF s # <<>> /\ IsSpace(s[Len(s)]) THEN RStrip(SubSeq(s, 1, Len(s) - 1)) ELSE s

\* str.strip()
Strip(s) == RStrip(LStrip(s))

\* str.startswith(prefix)
StartsWith(s, prefix) ==
    /\ Len(s) >= Len(prefix)
    /\ SubSeq(s, 1, Len(prefix)) = prefix

RECURSIVE SplitFrom(_, _, _)
SplitFrom(s, cur, acc) ==
    IF s = <<>>
    THEN IF cur = <<>> THEN acc ELSE Append(acc, cur)
    ELSE IF IsSpace(Head(s))
         THEN SplitFrom(Tail(s), <<>>, IF cur = <<>> THEN acc ELSE Append(acc, cur))
         ELSE SplitFrom(Tail(s), Append(cur, Head(s)), acc)

\* str.split(): the whitespace-separated tokens, none of them empty
Split(s) == SplitFrom(s, <<>>, <<>>)

\* message.split(", ") of the client: the parts between the separators
RECURSIVE SplitListFrom(_, _, _)
SplitListFrom(s, cur, acc) ==
    IF s = <<>>
    THEN Append(acc, cur)
    ELSE IF Len(s) >= 2 /\ s[1] = "," /\ s[2] = " "
         THEN SplitListFrom(SubSeq(s, 3, Len(s)), <<>>, Append(acc, cur))
         ELSE SplitListFrom(Tail(s), Append(cur, Head(s)), acc)

\* the names the client shows for a list reply: none for the sentinel text
Shown(reply, sentinel) ==
    IF reply = sentinel
    THEN {}
    ELSE LET parts == SplitListFrom(reply, <<>>, <<>>)
         IN { parts[i] : i \in DOMAIN parts }

\* index of the first space of s, 0 when it has none
FirstSpace(s) ==
    IF \E i \in 1..Len(s) : s[i] = " "
    THEN CHOOSE i \in 1..Len(s) : s[i] = " " /\ \A j \in 1..(i - 1) : s[j] # " "
    ELSE 0

\* utils.parse_command: message.split(' ', 1) as (command, argument)
parse_command(message) ==
    LET i == FirstSpace(message) IN
    IF i = 0
    THEN <<message, <<>>>>
    ELSE <<SubSeq(message, 1, i - 1), SubSeq(message, i + 1, Len(message))>>

RECURSIVE Join(_, _)
\* sep.join(items)
Join(sep, items) ==
    IF items = <<>> THEN <<>>
    ELSE IF Len(items) = 1 THEN items[1]
    ELSE items[1] \o sep \o Join(sep, Tail(items))

\* the requests a peer builds as f"{command} {argument}" (client.py)
Cmd(command, argument) == command \o <<" ">> \o argument

(* ---------------- the world the coordinator runs in ---------------- *)

\* control-channel addresses (ip, port) datagrams arrive from
Address == {"A1", "A2"}

\* value of client_address before the first datagram is received
NoAddress == "-"

alice == <<"a">>
bob == <<"b">>
charlie == <<"c">>

\* the credential table loaded at startup: username -> password
credentials ==
    (alice :> <<"1">>) @@ (bob :> <<"2">>) @@ (charlie :> <<"3">>)

FileF == <<"f">>
FileFG == <<"f", "g">>

Host == <<"h">>

\* the datagrams peers send (the requests of client.py, and ill-formed ones)
Datagrams ==
    { Cmd(MSG_AUTH, alice \o <<" ">> \o <<"1">>),
      Cmd(MSG_AUTH, alice \o <<" ">> \o <<"2">>),
      Cmd(MSG_AUTH, bob \o <<" ">> \o <<"2">>),
      Cmd(MSG_AUTH, <<"z">> \o <<" ">> \o <<"1">>),
      Cmd(MSG_AUTH, alice),
      Cmd(MSG_AUTH, alice \o <<" ">> \o <<"1">> \o <<" ">> \o <<"1">>),
      MSG_HEARTBEAT,
      Cmd(MSG_TCP, Host \o <<" ">> \o <<"8">>),
      Cmd(MSG_TCP, Host),
      Cmd(CMD_PUBLISH, FileF),
      Cmd(CMD_UNPUBLISH, FileF),
      Cmd(CMD_GET, FileF),
      Cmd(CMD_GET, FileFG),
      CMD_LIST_ACTIVE_PEERS,
      CMD_LIST_PUBLISHED_FILES,
      Cmd(CMD_SEARCH, <<"g">>),
      <<"x", "i", "t">> }

(* ---------------- state ---------------- *)

VARIABLES
    active_clients,    \* Session Directory: sequence (dict order) of sessions
    published_files,   \* Publication Registry: sequence of [filename, publishers]
    now,               \* time.time(), in seconds
    pc,                \* run(): "sweep" at the loop top, "recv" blocked in recvfrom
    message,           \* run(): the decoded, stripped datagram being handled
    client_address,    \* run(): the address it came from
    sent,              \* the datagrams sent back while handling it
    inactive_clients,  \* check_for_inactive_clients(): the addresses it removed
    fault,             \* the handler raised and run() caught it
    peer,              \* a client process and its control socket: where its
                       \* threads are, the datagrams on their way to the
                       \* server and the replies on their way back
    last_publish       \* history: <<address, filename, what>> when the previous
                       \* loop iteration handled, from an address with a
                       \* session, a PUBLISH of filename ("once"), a PUBLISH
                       \* right after a PUBLISH of the same filename from the
                       \* same address ("again"), or an UNPUBLISH right after
                       \* such a PUBLISH ("withdrawn"); <<>> otherwise

vars == <<active_clients, published_files, now, pc, message, client_address,
          sent, inactive_clients, fault, last_publish, peer>>

(* ---------------- dict helpers ---------------- *)

\* client_address in self.active_clients
HasClient(clients, addr) == \E i \in DOMAIN clients : clients[i].addr = addr

\* self.active_clients[client_address]
ClientOf(clients, addr) == clients[CHOOSE i \in DOMAIN clients : clients[i].addr = addr]

\* self.active_clients[client_address] = data (a new key goes last)
SetClient(clients, addr, data) ==
    IF HasClient(clients, addr)
    THEN [i \in DOMAIN clients |-> IF clients[i].addr = addr THEN data ELSE clients[i]]
    ELSE Append(clients, data)

\* filename in self.published_files
HasFile(files, filename) == \E i \in DOMAIN files : files[i].filename = filename

\* self.published_files[filename]
PublishersOf(files, filename) ==
    files[CHOOSE i \in DOMAIN files : files[i].filename = filename].publishers

\* username in publishers
InList(x, list) == \E i \in DOMAIN list : list[i] = x

\* variant: the head of the list is removed whatever it is
Remove_Head(list, x) == Tail(list)

\* list.remove(x): drops the first occurrence
Remove(list, x) ==
    LET i == CHOOSE k \in DOMAIN list : list[k] = x /\ \A j \in 1..(k - 1) : list[j] # x
    IN SubSeq(list, 1, i - 1) \o SubSeq(list, i + 1, Len(list))

\* substring in filename
Contains(s, sub) ==
    \E i \in 0..(Len(s) - Len(sub)) : SubSeq(s, i + 1, i + Len(sub)) = sub

(* ---------------- check_for_inactive_clients ---------------- *)

\* variant: the timeout compared with >= instead of >
IsInactive_AtTimeout(data, current_time) ==
    current_time - data.last_heartbeat >= HEARTBEAT_TIMEOUT

\* current_time - data['last_heartbeat'] > HEARTBEAT_TIMEOUT
IsInactive(data, current_time) ==
    current_time - data.last_heartbeat > HEARTBEAT_TIMEOUT

\* variant: the sweep also withdraws what the removed sessions published
check_for_inactive_clients_Purging ==
    /\ pc = "sweep"
    /\ LET current_time == now
           IsActive(data) == ~IsInactive(data, current_time)
           IsStale(data) == IsInactive(data, current_time)
           stale == SelectSeq(active_clients, IsStale)
           gone == { stale[i].username : i \in DOMAIN stale }
           Stays(username) == username \notin gone
           HasPublishers(e) == e.publishers # <<>>
       IN /\ inactive_clients' = [i \in DOMAIN stale |-> stale[i].addr]
          /\ active_clients' = SelectSeq(active_clients, IsActive)
          /\ published_files' =
                SelectSeq([i \in DOMAIN published_files |->
                             [published_files[i] EXCEPT
                                !.publishers = SelectSeq(@, Stays)]],
                          HasPublishers)
    /\ message' = <<>>
    /\ client_address' = NoAddress
    /\ sent' = <<>>
    /\ fault' = FALSE
    /\ pc' = "recv"
    /\ UNCHANGED <<now, last_publish, peer>>

check_for_inactive_clients ==
    /\ pc = "sweep"
    /\ LET current_time == now
           IsActive(data) == ~IsInactive(data, current_time)
           IsStale(data) == IsInactive(data, current_time)
           stale == SelectSeq(active_clients, IsStale)
       IN /\ inactive_clients' = [i \in DOMAIN stale |-> stale[i].addr]
          /\ active_clients' = SelectSeq(active_clients, IsActive)
    /\ message' = <<>>
    /\ client_address' = NoAddress
    /\ sent' = <<>>
    /\ fault' = FALSE
    /\ pc' = "recv"
    /\ UNCHANGED <<published_files, now, last_publish, peer>>

(* ---------------- run: receive and route ---------------- *)

\* the if/elif chain of run()
Route(m) ==
    IF m = MSG_HEARTBEAT THEN "HBT"
    ELSE IF StartsWith(m, CMD_PUBLISH) THEN "pub"
    ELSE IF StartsWith(m, CMD_UNPUBLISH) THEN "unp"
    ELSE IF StartsWith(m, MSG_TCP) THEN "TCP"
    ELSE IF m = CMD_LIST_ACTIVE_PEERS THEN "lap"
    ELSE IF m = CMD_LIST_PUBLISHED_FILES THEN "lpf"
    ELSE IF StartsWith(m, CMD_SEARCH) THEN "sch"
    ELSE IF StartsWith(m, CMD_GET) THEN "get"
    ELSE IF StartsWith(m, MSG_AUTH) THEN "auth"
    ELSE "unknown"

\* a byte that no UTF-8 text contains (0xFF): bytes.decode() raises on it
InvalidByte == "#"

\* message.decode() succeeds
Decodable(raw) == \A i \in DOMAIN raw : raw[i] # InvalidByte

(* ---------------- the control socket of a peer ---------------- *)

\* the address of the peer whose process is part of the model
PeerAddress == "A1"

\* no client process is part of the model: datagrams come from anywhere
NoPeer ==
    [main |-> "off", heartbeat |-> FALSE, request |-> <<>>,
     wire |-> <<>>, inbox |-> <<>>, got |-> <<>>]

\* recvfrom() returns raw from addr: any datagram when no client process is
\* modelled, else the oldest datagram the peer has sent and the server has
\* not received yet (reliable delivery, in order)
Arrives(addr, raw) ==
    \/ peer.main = "off"
    \/ /\ addr = PeerAddress
       /\ peer.wire # <<>>
       /\ raw = Head(peer.wire)

\* the socket after run() has received raw and sent the replies to its
\* sender: raw has left the wire and each reply is on its way back, marked
\* with the datagram that caused it
Socket(raw, replies) ==
    IF peer.main = "off" THEN peer
    ELSE [peer EXCEPT !.wire = Tail(@),
                      !.inbox = @ \o [i \in DOMAIN replies |->
                                        [reply |-> replies[i], to |-> raw]]]

\* variant: the decoding error is not caught and run() ends
decode_error_Uncaught(addr, raw) ==
    /\ pc = "recv"
    /\ ~Decodable(raw)
    /\ Arrives(addr, raw)
    /\ message' = raw
    /\ client_address' = addr
    /\ inactive_clients' = <<>>
    /\ last_publish' = <<>>
    /\ sent' = <<>>
    /\ fault' = TRUE
    /\ pc' = "stopped"
    /\ UNCHANGED <<active_clients, published_files, now>>
    /\ peer' = Socket(raw, sent')

\* message.decode() raises UnicodeDecodeError: no handler is called, run()
\* prints the error and continues with the next iteration
decode_error(addr, raw) ==
    /\ pc = "recv"
    /\ ~Decodable(raw)
    /\ Arrives(addr, raw)
    /\ message' = raw
    /\ client_address' = addr
    /\ inactive_clients' = <<>>
    /\ last_publish' = <<>>
    /\ sent' = <<>>
    /\ fault' = TRUE
    /\ pc' = "sweep"
    /\ UNCHANGED <<active_clients, published_files, now>>
    /\ peer' = Socket(raw, sent')

\* message, client_address = recvfrom(); message = message.decode().strip()
Receive(addr, raw, handler) ==
    /\ pc = "recv"
    /\ Arrives(addr, raw)
    /\ Decodable(raw)
    /\ Route(Strip(raw)) = handler
    /\ message' = Strip(raw)
    /\ client_address' = addr
    /\ inactive_clients' = <<>>
    /\ last_publish' =
          LET argument == parse_command(Strip(raw))[2]
              follows == /\ last_publish # <<>>
                         /\ last_publish[1] = addr
                         /\ last_publish[2] = argument
                         /\ last_publish[3] \in {"once", "again"}
          IN IF ~HasClient(active_clients, addr) THEN <<>>
             ELSE IF handler = "pub"
                  THEN <<addr, argument, IF follows THEN "again" ELSE "once">>
                  ELSE IF handler = "unp" /\ follows
                       THEN <<addr, argument, "withdrawn">>
                       ELSE <<>>
    /\ pc' = "sweep"
    /\ UNCHANGED now

(* ---------------- handlers ---------------- *)

\* variant: a heartbeat of a session is acknowledged with MSG_OK
process_heartbeat_Acknowledged(addr, raw) ==
    /\ Receive(addr, raw, "HBT")
    /\ active_clients' =
          IF HasClient(active_clients, addr)
          THEN SetClient(active_clients, addr,
                         [ClientOf(active_clients, addr) EXCEPT !.last_heartbeat = now])
          ELSE active_clients
    /\ sent' = IF HasClient(active_clients, addr) THEN <<MSG_OK>> ELSE <<>>
    /\ fault' = FALSE
    /\ UNCHANGED published_files
    /\ peer' = Socket(raw, sent')

\* variant: the heartbeat also forgets the reported endpoint
process_heartbeat_DropEndpoint(addr, raw) ==
    /\ Receive(addr, raw, "HBT")
    /\ active_clients' =
          IF HasClient(active_clients, addr)
          THEN SetClient(active_clients, addr,
                         [ClientOf(active_clients, addr)
                             EXCEPT !.last_heartbeat = now, !.tcp_address = <<>>])
          ELSE active_clients
    /\ sent' = <<>>
    /\ fault' = FALSE
    /\ UNCHANGED published_files
    /\ peer' = Socket(raw, sent')

process_heartbeat(addr, raw) ==
    /\ Receive(addr, raw, "HBT")
    /\ active_clients' =
          IF HasClient(active_clients, addr)
          THEN SetClient(active_clients, addr,
                         [ClientOf(active_clients, addr) EXCEPT !.last_heartbeat = now])
          ELSE active_clients
    /\ sent' = <<>>
    /\ fault' = FALSE
    /\ UNCHANGED published_files
    /\ peer' = Socket(raw, sent')

\* variant: the check for an active username is left out
UsernameActive_Off(clients, username) == FALSE

\* variant: only the oldest session is compared
UsernameActive_FirstOnly(clients, username) ==
    clients # <<>> /\ clients[1].username = username

\* any(data['username'] == username for data in self.active_clients.values())
UsernameActive(clients, username) ==
    \E i \in DOMAIN clients : clients[i].username = username

\* variant: the password is looked up without the username
ValidCredentials_AnyUser(username, password) ==
    \E u \in DOMAIN credentials : credentials[u] = password

\* variant: the password is not compared
ValidCredentials_AnyPassword(username, password) ==
    username \in DOMAIN credentials

\* username in self.credentials and self.credentials[username] == password
ValidCredentials(username, password) ==
    /\ username \in DOMAIN credentials
    /\ credentials[username] = password

\* variant: the session starts with a default data endpoint
NewSession_DefaultEndpoint(addr, username, current_time) ==
    [addr |-> addr, username |-> username,
     last_heartbeat |-> current_time, tcp_address |-> <<Host, <<"0">>>>]

\* variant: the session starts with a zero timestamp
NewSession_ZeroHeartbeat(addr, username, current_time) ==
    [addr |-> addr, username |-> username,
     last_heartbeat |-> 0, tcp_address |-> <<>>]

\* the session authenticate_client stores on success
NewSession(addr, username, current_time) ==
    [addr |-> addr, username |-> username,
     last_heartbeat |-> current_time, tcp_address |-> <<>>]

authenticate_client(addr, raw) ==
    /\ Receive(addr, raw, "auth")
    /\ LET parts == Split(Strip(raw)) IN
       IF Len(parts) # 3
       THEN /\ sent' = <<MSG_ERROR>>
            /\ UNCHANGED active_clients
       ELSE LET username == parts[2]
                password == parts[3]
            IN IF UsernameActive(active_clients, username)
               THEN /\ sent' = <<MSG_ERROR>>
                    /\ UNCHANGED active_clients
               ELSE IF ValidCredentials(username, password)
               THEN /\ sent' = <<MSG_OK>>
                    /\ active_clients' =
                          SetClient(active_clients, addr,
                                    NewSession(addr, username, now))
               ELSE /\ sent' = <<MSG_ERROR>>
                    /\ UNCHANGED active_clients
    /\ fault' = FALSE
    /\ UNCHANGED published_files
    /\ peer' = Socket(raw, sent')

\* variant: a report without a port token is stored with an empty port
process_tcp_address_Lenient(addr, raw) ==
    /\ Receive(addr, raw, "TCP")
    /\ LET parts == Split(Strip(raw)) IN
       IF Len(parts) \in {2, 3} /\ HasClient(active_clients, addr)
       THEN active_clients' =
               SetClient(active_clients, addr,
                         [ClientOf(active_clients, addr)
                             EXCEPT !.tcp_address =
                                <<parts[2], IF Len(parts) = 3 THEN parts[3] ELSE <<>>>>])
       ELSE UNCHANGED active_clients
    /\ sent' = <<>>
    /\ fault' = FALSE
    /\ UNCHANGED published_files
    /\ peer' = Socket(raw, sent')

\* variant: a report also counts as a heartbeat
process_tcp_address_Refreshing(addr, raw) ==
    /\ Receive(addr, raw, "TCP")
    /\ LET parts == Split(Strip(raw)) IN
       IF Len(parts) = 3 /\ HasClient(active_clients, addr)
       THEN active_clients' =
               SetClient(active_clients, addr,
                         [ClientOf(active_clients, addr)
                             EXCEPT !.tcp_address = <<parts[2], parts[3]>>,
                                    !.last_heartbeat = now])
       ELSE UNCHANGED active_clients
    /\ sent' = <<>>
    /\ fault' = FALSE
    /\ UNCHANGED published_files
    /\ peer' = Socket(raw, sent')

process_tcp_address(addr, raw) ==
    /\ Receive(addr, raw, "TCP")
    /\ LET parts == Split(Strip(raw)) IN
       IF Len(parts) = 3 /\ HasClient(active_clients, addr)
       THEN active_clients' =
               SetClient(active_clients, addr,
                         [ClientOf(active_clients, addr)
                             EXCEPT !.tcp_address = <<parts[2], parts[3]>>])
       ELSE UNCHANGED active_clients
    /\ sent' = <<>>
    /\ fault' = FALSE
    /\ UNCHANGED published_files
    /\ peer' = Socket(raw, sent')

\* variant: the username is recorded only when the filename has no entry yet
Publish_NewEntryOnly(files, filename, username) ==
    IF HasFile(files, filename)
    THEN files
    ELSE Append(files, [filename |-> filename, publishers |-> <<username>>])

\* variant: the username is appended without the membership test
Publish_Append(files, filename, username) ==
    IF HasFile(files, filename)
    THEN [i \in DOMAIN files |->
            IF files[i].filename = filename
            THEN [files[i] EXCEPT !.publishers = Append(@, username)]
            ELSE files[i]]
    ELSE Append(files, [filename |-> filename, publishers |-> <<username>>])

\* the registry after username publishes filename
Publish(files, filename, username) ==
    IF HasFile(files, filename)
    THEN [i \in DOMAIN files |->
            IF files[i].filename = filename /\ ~InList(username, files[i].publishers)
            THEN [files[i] EXCEPT !.publishers = Append(@, username)]
            ELSE files[i]]
    ELSE Append(files, [filename |-> filename, publishers |-> <<username>>])

\* variant: a PUBLISH from an address without a session is recorded too,
\* under an empty username
handle_publish_file_Anonymous(addr, raw) ==
    /\ Receive(addr, raw, "pub")
    /\ LET filename == parse_command(Strip(raw))[2]
           username == IF HasClient(active_clients, addr)
                       THEN ClientOf(active_clients, addr).username
                       ELSE <<>>
       IN /\ published_files' = Publish(published_files, filename, username)
          /\ sent' = <<RESP_FILE_PUBLISHED>>
    /\ fault' = FALSE
    /\ UNCHANGED active_clients
    /\ peer' = Socket(raw, sent')

handle_publish_file(addr, raw) ==
    /\ Receive(addr, raw, "pub")
    /\ LET filename == parse_command(Strip(raw))[2] IN
       IF ~HasClient(active_clients, addr)
       THEN /\ sent' = <<>>
            /\ UNCHANGED published_files
       ELSE LET username == ClientOf(active_clients, addr).username IN
            /\ published_files' = Publish(published_files, filename, username)
            /\ sent' = <<RESP_FILE_PUBLISHED>>
    /\ fault' = FALSE
    /\ UNCHANGED active_clients
    /\ peer' = Socket(raw, sent')

\* variant: the entry of the filename is deleted whoever else publishes it
Unpublish_DropEntry(files, filename, username) ==
    LET Other(e) == e.filename # filename
    IN SelectSeq(files, Other)

\* variant: an entry left without publishers is kept
Unpublish_KeepEmpty(files, filename, username) ==
    [i \in DOMAIN files |->
        IF files[i].filename = filename
        THEN [files[i] EXCEPT !.publishers = Remove(@, username)]
        ELSE files[i]]

\* the registry after username is removed from filename's publishers
Unpublish(files, filename, username) ==
    LET HasPublishers(e) == e.publishers # <<>>
    IN SelectSeq([i \in DOMAIN files |->
                    IF files[i].filename = filename
                    THEN [files[i] EXCEPT !.publishers = Remove(@, username)]
                    ELSE files[i]],
                 HasPublishers)

handle_unpublish_file(addr, raw) ==
    /\ Receive(addr, raw, "unp")
    /\ LET filename == parse_command(Strip(raw))[2] IN
       IF ~HasClient(active_clients, addr)
       THEN /\ sent' = <<>>
            /\ UNCHANGED published_files
       ELSE LET username == ClientOf(active_clients, addr).username IN
            IF /\ HasFile(published_files, filename)
               /\ InList(username, PublishersOf(published_files, filename))
            THEN /\ published_files' = Unpublish(published_files, filename, username)
                 /\ sent' = <<RESP_FILE_UNPUBLISHED>>
            ELSE /\ sent' = <<RESP_FILE_UNPUB_FAILED>>
                 /\ UNCHANGED published_files
    /\ fault' = FALSE
    /\ UNCHANGED active_clients
    /\ peer' = Socket(raw, sent')

\* variant: only the peers that reported a data endpoint are listed
active_peers_WithEndpoint(clients, client_addr) ==
    LET Listed(data) == data.addr # client_addr /\ data.tcp_address # <<>>
        others == SelectSeq(clients, Listed)
    IN [i \in DOMAIN others |-> others[i].username]

\* the usernames of the sessions of all addresses but the requester's
active_peers(clients, client_addr) ==
    LET NotRequester(data) == data.addr # client_addr
        others == SelectSeq(clients, NotRequester)
    IN [i \in DOMAIN others |-> others[i].username]

handle_list_active_peers(addr, raw) ==
    /\ Receive(addr, raw, "lap")
    /\ IF ~HasClient(active_clients, addr)
       THEN sent' = <<>>
       ELSE LET peers == active_peers(active_clients, addr)
            IN sent' = << IF peers # <<>>
                          THEN Join(<<",", " ">>, peers)
                          ELSE RESP_NO_ACTIVE_PEERS >>
    /\ fault' = FALSE
    /\ UNCHANGED <<active_clients, published_files>>
    /\ peer' = Socket(raw, sent')

handle_list_published_files(addr, raw) ==
    /\ Receive(addr, raw, "lpf")
    /\ IF ~HasClient(active_clients, addr)
       THEN sent' = <<>>
       ELSE sent' = << IF published_files # <<>>
                       THEN Join(<<",", " ">>,
                                 [i \in DOMAIN published_files |->
                                     published_files[i].filename])
                       ELSE RESP_NO_PUBLISHED_FILES >>
    /\ fault' = FALSE
    /\ UNCHANGED <<active_clients, published_files>>
    /\ peer' = Socket(raw, sent')

\* variant: a file is kept when some publisher other than the requester has it
Matching_OtherPublisher(entry, substring, username) ==
    /\ Contains(entry.filename, substring)
    /\ \E i \in DOMAIN entry.publishers : entry.publishers[i] # username

\* variant: the requester's own files are not left out
Matching_OwnIncluded(entry, substring, username) ==
    Contains(entry.filename, substring)

\* the filter of the search: substring in filename and username not in publishers
Matching(entry, substring, username) ==
    /\ Contains(entry.filename, substring)
    /\ ~InList(username, entry.publishers)

\* the list the search builds, in registry order
matching_files(files, substring, username) ==
    LET Keep(e) == Matching(e, substring, username)
        hits == SelectSeq(files, Keep)
    IN [i \in DOMAIN hits |-> hits[i].filename]

handle_search_files(addr, raw) ==
    /\ Receive(addr, raw, "sch")
    /\ IF ~HasClient(active_clients, addr)
       THEN sent' = <<>>
       ELSE LET substring == parse_command(Strip(raw))[2]
                username == ClientOf(active_clients, addr).username
                found == matching_files(published_files, substring, username)
            IN sent' = << IF found # <<>>
                          THEN Join(<<",", " ">>, found)
                          ELSE RESP_NO_FILES_FOUND >>
    /\ fault' = FALSE
    /\ UNCHANGED <<active_clients, published_files>>
    /\ peer' = Socket(raw, sent')

\* the inner loop of handle_get_request: index of the first session whose
\* username is publisher_username, 0 when there is none (peer_address = None)
FindPeer(clients, publisher_username) ==
    IF \E i \in DOMAIN clients : clients[i].username = publisher_username
    THEN CHOOSE i \in DOMAIN clients :
            /\ clients[i].username = publisher_username
            /\ \A j \in 1..(i - 1) : clients[j].username # publisher_username
    ELSE 0

\* whether the outer loop of handle_get_request returns at this publisher
Serves(clients, publisher_username, requesting_username) ==
    /\ publisher_username # requesting_username
    /\ FindPeer(clients, publisher_username) # 0
    /\ clients[FindPeer(clients, publisher_username)].tcp_address # <<>>

\* variant: the last serving publisher is taken instead of the first
SelectPublisher_Last(publishers, clients, requesting_username) ==
    IF \E i \in DOMAIN publishers : Serves(clients, publishers[i], requesting_username)
    THEN CHOOSE i \in DOMAIN publishers :
            /\ Serves(clients, publishers[i], requesting_username)
            /\ \A j \in (i + 1)..Len(publishers) :
                  ~Serves(clients, publishers[j], requesting_username)
    ELSE 0

\* the outer loop: index of the publisher it returns at, 0 when it falls through
SelectPublisher(publishers, clients, requesting_username) ==
    IF \E i \in DOMAIN publishers : Serves(clients, publishers[i], requesting_username)
    THEN CHOOSE i \in DOMAIN publishers :
            /\ Serves(clients, publishers[i], requesting_username)
            /\ \A j \in 1..(i - 1) : ~Serves(clients, publishers[j], requesting_username)
    ELSE 0

\* variant: a GET withdraws the publishers of the file that have no session
handle_get_request_Pruning(addr, raw) ==
    /\ Receive(addr, raw, "get")
    /\ LET filename == parse_command(Strip(raw))[2] IN
       IF ~HasClient(active_clients, addr)
       THEN /\ sent' = <<>>
            /\ fault' = TRUE
            /\ UNCHANGED published_files
       ELSE LET requesting_username == ClientOf(active_clients, addr).username IN
            /\ fault' = FALSE
            /\ IF ~HasFile(published_files, filename)
               THEN /\ sent' = <<RESP_FILE_NOT_FOUND>>
                    /\ UNCHANGED published_files
               ELSE LET publishers == PublishersOf(published_files, filename)
                        k == SelectPublisher(publishers, active_clients,
                                             requesting_username)
                        HasSession(username) == FindPeer(active_clients, username) # 0
                        HasPublishers(e) == e.publishers # <<>>
                    IN /\ IF k # 0
                          THEN LET tcp_address ==
                                      active_clients[FindPeer(active_clients,
                                                              publishers[k])].tcp_address
                               IN sent' = << publishers[k] \o <<" ">> \o tcp_address[1]
                                             \o <<" ">> \o tcp_address[2] >>
                          ELSE sent' = <<RESP_NO_ACTIVE_PEER_HAS_FILE>>
                       /\ published_files' =
                             SelectSeq([i \in DOMAIN published_files |->
                                          IF published_files[i].filename = filename
                                          THEN [published_files[i] EXCEPT
                                                  !.publishers = SelectSeq(@, HasSession)]
                                          ELSE published_files[i]],
                                       HasPublishers)
    /\ UNCHANGED active_clients
    /\ peer' = Socket(raw, sent')

handle_get_request(addr, raw) ==
    /\ Receive(addr, raw, "get")
    /\ LET filename == parse_command(Strip(raw))[2] IN
       IF ~HasClient(active_clients, addr)
       THEN \* self.active_clients[client_address] raises KeyError
            /\ sent' = <<>>
            /\ fault' = TRUE
       ELSE LET requesting_username == ClientOf(active_clients, addr).username IN
            /\ fault' = FALSE
            /\ IF ~HasFile(published_files, filename)
               THEN sent' = <<RESP_FILE_NOT_FOUND>>
               ELSE LET publishers == PublishersOf(published_files, filename)
                        k == SelectPublisher(publishers, active_clients,
                                             requesting_username)
                    IN IF k # 0
                       THEN LET tcp_address ==
                                   active_clients[FindPeer(active_clients,
                                                           publishers[k])].tcp_address
                            IN sent' = << publishers[k] \o <<" ">> \o tcp_address[1]
                                          \o <<" ">> \o tcp_address[2] >>
                       ELSE sent' = <<RESP_NO_ACTIVE_PEER_HAS_FILE>>
    /\ UNCHANGED <<active_clients, published_files>>
    /\ peer' = Socket(raw, sent')

unknown_command(addr, raw) ==
    /\ Receive(addr, raw, "unknown")
    /\ sent' = <<MSG_ERROR>>
    /\ fault' = FALSE
    /\ UNCHANGED <<active_clients, published_files>>
    /\ peer' = Socket(raw, sent')

(* ---------------- the clock ---------------- *)

\* time passes while run() is blocked in recvfrom
Tick ==
    /\ pc = "recv"
    /\ now < MaxTime
    /\ now' = now + 1
    /\ UNCHANGED <<active_clients, published_files, pc, message, client_address,
                   sent, inactive_clients, fault, last_publish, peer>>

(* ---------------- specification ---------------- *)

Init ==
    /\ active_clients = <<>>
    /\ published_files = <<>>
    /\ now = 0
    /\ pc = "sweep"
    /\ message = <<>>
    /\ client_address = NoAddress
    /\ sent = <<>>
    /\ inactive_clients = <<>>
    /\ fault = FALSE
    /\ last_publish = <<>>
    /\ peer = NoPeer

Next ==
    \/ Tick
    \/ check_for_inactive_clients
    \/ \E addr \in Address, raw \in Datagrams :
          \/ process_heartbeat(addr, raw)
          \/ handle_publish_file(addr, raw)
          \/ handle_unpublish_file(addr, raw)
          \/ process_tcp_address(addr, raw)
          \/ handle_list_active_peers(addr, raw)
          \/ handle_list_published_files(addr, raw)
          \/ handle_search_files(addr, raw)
          \/ handle_get_request(addr, raw)
          \/ authenticate_client(addr, raw)
          \/ unknown_command(addr, raw)

Spec == Init /\ [][Next]_vars

(* ---------------- resolution among three peers ---------------- *)

\* three peers, each with its own credentials: what each address sends
GetInputs ==
    { <<"A1", Cmd(MSG_AUTH, alice \o <<" ">> \o <<"1">>)>>,
      <<"A1", Cmd(MSG_TCP, Host \o <<" ">> \o <<"8">>)>>,
      <<"A1", Cmd(CMD_PUBLISH, FileF)>>,
      <<"A1", Cmd(CMD_GET, FileF)>>,
      <<"A1", CMD_LIST_ACTIVE_PEERS>>,
      <<"A2", Cmd(MSG_AUTH, bob \o <<" ">> \o <<"2">>)>>,
      <<"A2", Cmd(MSG_TCP, Host \o <<" ">> \o <<"8">>)>>,
      <<"A2", Cmd(MSG_TCP, Host \o <<" ">> \o <<"9">>)>>,
      <<"A2", Cmd(CMD_PUBLISH, FileF)>>,
      <<"A2", Cmd(CMD_GET, FileF)>>,
      <<"A2", CMD_LIST_ACTIVE_PEERS>>,
      <<"A3", Cmd(MSG_AUTH, charlie \o <<" ">> \o <<"3">>)>>,
      <<"A3", Cmd(MSG_TCP, Host \o <<" ">> \o <<"8">>)>>,
      <<"A3", Cmd(MSG_TCP, Host)>>,
      <<"A3", Cmd(CMD_PUBLISH, FileF)>>,
      <<"A3", Cmd(CMD_GET, FileF)>>,
      <<"A3", CMD_LIST_ACTIVE_PEERS>> }

\* run() stays blocked in recvfrom for longer than the heartbeat timeout
LongWait ==
    /\ pc = "recv"
    /\ now + HEARTBEAT_TIMEOUT + 1 <= MaxTime
    /\ now' = now + HEARTBEAT_TIMEOUT + 1
    /\ UNCHANGED <<active_clients, published_files, pc, message, client_address,
                   sent, inactive_clients, fault, last_publish, peer>>

NextGet ==
    \/ LongWait
    \/ check_for_inactive_clients
    \/ \E in \in GetInputs :
          \/ handle_publish_file(in[1], in[2])
          \/ process_tcp_address(in[1], in[2])
          \/ handle_get_request(in[1], in[2])
          \/ handle_list_active_peers(in[1], in[2])
          \/ authenticate_client(in[1], in[2])

SpecGet == Init /\ [][NextGet]_vars

-----------------------------------------------------------------------------
\* The registry under two peers: alice at A1 and bob at A2 publish, withdraw,
\* and search two filenames, one a prefix of the other; bob also publishes a
\* file whose name is the text of RESP_NO_FILES_FOUND.

RegInputs ==
    { <<"A1", Cmd(MSG_AUTH, alice \o <<" ">> \o <<"1">>)>>,
      <<"A1", Cmd(CMD_PUBLISH, FileF)>>,
      <<"A1", Cmd(CMD_PUBLISH, FileFG)>>,
      <<"A1", Cmd(CMD_UNPUBLISH, FileF)>>,
      <<"A1", Cmd(CMD_UNPUBLISH, FileFG)>>,
      <<"A1", Cmd(CMD_SEARCH, <<"f">>)>>,
      <<"A1", Cmd(CMD_SEARCH, <<"g">>)>>,
      <<"A1", Cmd(CMD_SEARCH, <<"G">>)>>,
      <<"A2", Cmd(MSG_AUTH, bob \o <<" ">> \o <<"2">>)>>,
      <<"A2", Cmd(CMD_PUBLISH, FileF)>>,
      <<"A2", Cmd(CMD_PUBLISH, FileFG)>>,
      <<"A2", Cmd(CMD_PUBLISH, RESP_NO_FILES_FOUND)>>,
      <<"A2", Cmd(CMD_UNPUBLISH, FileF)>>,
      <<"A2", Cmd(CMD_UNPUBLISH, FileFG)>>,
      <<"A2", Cmd(CMD_SEARCH, <<"f">>)>>,
      <<"A2", Cmd(CMD_SEARCH, <<"g">>)>> }

NextReg ==
    \/ LongWait
    \/ check_for_inactive_clients
    \/ \E in \in RegInputs :
          \/ authenticate_client(in[1], in[2])
          \/ handle_publish_file(in[1], in[2])
          \/ handle_unpublish_file(in[1], in[2])
          \/ handle_search_files(in[1], in[2])

SpecReg == Init /\ [][NextReg]_vars

-----------------------------------------------------------------------------
\* The listing under two peers: alice at A1 publishes and withdraws a file and
\* publishes one whose name is the text of RESP_NO_PUBLISHED_FILES, bob at A2
\* publishes the first file too, and both ask for the list.

ListInputs ==
    { <<"A1", Cmd(MSG_AUTH, alice \o <<" ">> \o <<"1">>)>>,
      <<"A1", Cmd(CMD_PUBLISH, FileF)>>,
      <<"A1", Cmd(CMD_PUBLISH, RESP_NO_PUBLISHED_FILES)>>,
      <<"A1", Cmd(CMD_UNPUBLISH, FileF)>>,
      <<"A1", CMD_LIST_PUBLISHED_FILES>>,
      <<"A2", Cmd(MSG_AUTH, bob \o <<" ">> \o <<"2">>)>>,
      <<"A2", Cmd(CMD_PUBLISH, FileF)>>,
      <<"A2", CMD_LIST_PUBLISHED_FILES>> }

NextList ==
    \/ LongWait
    \/ check_for_inactive_clients
    \/ \E in \in ListInputs :
          \/ authenticate_client(in[1], in[2])
          \/ handle_publish_file(in[1], in[2])
          \/ handle_unpublish_file(in[1], in[2])
          \/ handle_list_published_files(in[1], in[2])

SpecList == Init /\ [][NextList]_vars

-----------------------------------------------------------------------------
\* Dispatch: datagrams whose first token only begins with a command literal
\* (`authx b 2`, `publish x`, `getx`, `TCPx h 8`, `HBTx`), next to a valid
\* AUTH and a datagram that begins with no literal.

FileX == <<"x">>

DispatchDatagrams ==
    { Cmd(MSG_AUTH, alice \o <<" ">> \o <<"1">>),
      Cmd(MSG_AUTH \o <<"x">>, bob \o <<" ">> \o <<"2">>),
      Cmd(CMD_PUBLISH \o <<"l", "i", "s", "h">>, FileX),
      CMD_GET \o <<"x">>,
      Cmd(MSG_TCP \o <<"x">>, Host \o <<" ">> \o <<"8">>),
      MSG_HEARTBEAT \o <<"x">>,
      <<"x", "i", "t">> }

NextDispatch ==
    \/ check_for_inactive_clients
    \/ \E addr \in Address, raw \in DispatchDatagrams :
          \/ authenticate_client(addr, raw)
          \/ handle_publish_file(addr, raw)
          \/ handle_get_request(addr, raw)
          \/ process_tcp_address(addr, raw)
          \/ unknown_command(addr, raw)

SpecDispatch == Init /\ [][NextDispatch]_vars

-----------------------------------------------------------------------------
\* The loop under requests that raise or lack their argument: a GET without
\* a session, `pub`, `unp`, `sch` and `get` without argument, and a datagram
\* that cannot be decoded.  The loop is never blocked at its top: the sweep
\* is taken whenever run() is there.

LoopDatagrams ==
    { Cmd(MSG_AUTH, alice \o <<" ">> \o <<"1">>),
      Cmd(CMD_PUBLISH, FileF),
      Cmd(CMD_GET, FileF),
      CMD_PUBLISH,
      CMD_UNPUBLISH,
      CMD_SEARCH,
      CMD_GET,
      <<InvalidByte>> }

NextLoop ==
    \/ check_for_inactive_clients
    \/ \E addr \in Address, raw \in LoopDatagrams :
          \/ authenticate_client(addr, raw)
          \/ handle_publish_file(addr, raw)
          \/ handle_unpublish_file(addr, raw)
          \/ handle_search_files(addr, raw)
          \/ handle_get_request(addr, raw)
          \/ decode_error(addr, raw)

SpecLoop == Init /\ [][NextLoop]_vars /\ WF_vars(check_for_inactive_clients)

-----------------------------------------------------------------------------
\* One peer and the server.  The peer's main thread authenticates, reports
\* its endpoint and runs the command loop; its heartbeat thread sends on the
\* same socket at any moment; the server receives what the peer sent, in
\* order, and its replies reach the peer's socket in order.

\* what the user types at the prompt of handle_commands(): the six commands,
\* `pub` without argument, and `xit`
PeerCommands ==
    { CMD_LIST_ACTIVE_PEERS,
      CMD_LIST_PUBLISHED_FILES,
      Cmd(CMD_PUBLISH, FileF),
      Cmd(CMD_UNPUBLISH, FileF),
      Cmd(CMD_SEARCH, FileF),
      Cmd(CMD_GET, FileF),
      CMD_PUBLISH,
      CMD_EXIT }

\* the passwords the user types for alice: the right one and a wrong one
PeerPasswords == { <<"1">>, <<"2">> }

\* authenticate(), up to its blocking recvfrom: sends `auth username password`
authenticate(password) ==
    /\ peer.main = "login"
    /\ peer' = [peer EXCEPT
                  !.wire = Append(@, Cmd(MSG_AUTH, alice \o <<" ">> \o password)),
                  !.main = "auth_wait"]
    /\ UNCHANGED <<active_clients, published_files, now, pc, message,
                   client_address, sent, inactive_clients, fault, last_publish>>

\* authenticate(), from the return of recvfrom: on MSG_OK it sends the
\* endpoint and returns, and run() starts the heartbeat thread and enters
\* handle_commands(); on anything else it asks for the credentials again
authenticate_response ==
    /\ peer.main = "auth_wait"
    /\ peer.inbox # <<>>
    /\ LET response == Head(peer.inbox).reply IN
       IF response = MSG_OK
       THEN peer' = [peer EXCEPT
                       !.inbox = Tail(@),
                       !.wire = Append(@, Cmd(MSG_TCP, Host \o <<" ">> \o <<"8">>)),
                       !.heartbeat = TRUE,
                       !.main = "prompt"]
       ELSE peer' = [peer EXCEPT !.inbox = Tail(@), !.main = "login"]
    /\ UNCHANGED <<active_clients, published_files, now, pc, message,
                   client_address, sent, inactive_clients, fault, last_publish>>

\* send_heartbeat(): one round of its loop
send_heartbeat ==
    /\ peer.heartbeat
    /\ Len(peer.wire) < MaxWire
    /\ peer' = [peer EXCEPT !.wire = Append(@, MSG_HEARTBEAT)]
    /\ UNCHANGED <<active_clients, published_files, now, pc, message,
                   client_address, sent, inactive_clients, fault, last_publish>>

\* the first token of a command the command loop sends, or <<>> when
\* handle_commands() ignores the input
Requested(command) ==
    IF command \in {CMD_LIST_ACTIVE_PEERS, CMD_LIST_PUBLISHED_FILES} THEN command
    ELSE IF StartsWith(command, CMD_PUBLISH \o <<" ">>) THEN CMD_PUBLISH
    ELSE IF StartsWith(command, CMD_UNPUBLISH \o <<" ">>) THEN CMD_UNPUBLISH
    ELSE IF StartsWith(command, CMD_SEARCH \o <<" ">>) THEN CMD_SEARCH
    ELSE IF StartsWith(command, CMD_GET \o <<" ">>) THEN CMD_GET
    ELSE <<>>

\* handle_commands(), one input up to the blocking recvfrom of the method it
\* calls: `xit` ends the process, a command is sent to the server, any
\* other input is ignored
handle_commands(input) ==
    /\ peer.main = "prompt"
    /\ LET command == Strip(input) IN
       IF command = CMD_EXIT
       THEN peer' = [peer EXCEPT !.main = "closed", !.heartbeat = FALSE,
                                 !.got = <<>>]
       ELSE IF Requested(command) = <<>>
       THEN peer' = [peer EXCEPT !.got = <<>>]
       ELSE LET request == IF Requested(command) = command THEN command
                           ELSE Cmd(Requested(command), parse_command(command)[2])
            IN peer' = [peer EXCEPT !.wire = Append(@, request),
                                    !.request = request,
                                    !.got = <<>>,
                                    !.main = "reply_wait"]
    /\ UNCHANGED <<active_clients, published_files, now, pc, message,
                   client_address, sent, inactive_clients, fault, last_publish>>

\* the method handle_commands() called, from the return of its recvfrom: it
\* takes the oldest datagram on the socket as the response to its request;
\* get_file() raises on a response that is neither of its two error texts
\* nor three tokens, which ends the process
command_response ==
    /\ peer.main = "reply_wait"
    /\ peer.inbox # <<>>
    /\ LET response == Head(peer.inbox)
           message_ == response.reply
           raises == /\ StartsWith(peer.request, CMD_GET)
                     /\ message_ \notin {RESP_NO_ACTIVE_PEER_HAS_FILE,
                                         RESP_FILE_NOT_FOUND}
                     /\ Len(Split(message_)) # 3
       IN peer' = [peer EXCEPT !.inbox = Tail(@),
                               !.got = <<peer.request, response>>,
                               !.request = <<>>,
                               !.heartbeat = IF raises THEN FALSE ELSE @,
                               !.main = IF raises THEN "closed" ELSE "prompt"]
    /\ UNCHANGED <<active_clients, published_files, now, pc, message,
                   client_address, sent, inactive_clients, fault, last_publish>>

\* the server is up and the client has been started
InitPeer ==
    /\ active_clients = <<>>
    /\ published_files = <<>>
    /\ now = 0
    /\ pc = "sweep"
    /\ message = <<>>
    /\ client_address = NoAddress
    /\ sent = <<>>
    /\ inactive_clients = <<>>
    /\ fault = FALSE
    /\ last_publish = <<>>
    /\ peer = [NoPeer EXCEPT !.main = "login"]

\* what the peer can have put on the wire
PeerDatagrams ==
    { Cmd(MSG_AUTH, alice \o <<" ">> \o password) : password \in PeerPasswords }
    \cup { Cmd(MSG_TCP, Host \o <<" ">> \o <<"8">>), MSG_HEARTBEAT }
    \cup (PeerCommands \ {CMD_PUBLISH, CMD_EXIT})

NextPeer ==
    \/ Tick
    \/ check_for_inactive_clients
    \/ \E password \in PeerPasswords : authenticate(password)
    \/ authenticate_response
    \/ send_heartbeat
    \/ \E input \in PeerCommands : handle_commands(input)
    \/ command_response
    \/ \E raw \in PeerDatagrams :
          \/ process_heartbeat(PeerAddress, raw)
          \/ handle_publish_file(PeerAddress, raw)
          \/ handle_unpublish_file(PeerAddress, raw)
          \/ process_tcp_address(PeerAddress, raw)
          \/ handle_list_active_peers(PeerAddress, raw)
          \/ handle_list_published_files(PeerAddress, raw)
          \/ handle_search_files(PeerAddress, raw)
          \/ handle_get_request(PeerAddress, raw)
          \/ authenticate_client(PeerAddress, raw)

SpecPeer == InitPeer /\ [][NextPeer]_vars

\* run() of the server, from recvfrom to the end of the handler it calls,
\* for the oldest datagram of the peer
serve ==
    \E raw \in PeerDatagrams :
       \/ process_heartbeat(PeerAddress, raw)
       \/ handle_publish_file(PeerAddress, raw)
       \/ handle_unpublish_file(PeerAddress, raw)
       \/ process_tcp_address(PeerAddress, raw)
       \/ handle_list_active_peers(PeerAddress, raw)
       \/ handle_list_published_files(PeerAddress, raw)
       \/ handle_search_files(PeerAddress, raw)
       \/ handle_get_request(PeerAddress, raw)
       \/ authenticate_client(PeerAddress, raw)

\* the peer and a running server under reliable delivery: the server is
\* never stopped at the loop top, its recvfrom returns when a datagram has
\* been sent to it, a recvfrom of the client returns when a reply has been
\* sent to it, and the heartbeat thread keeps sending
SpecPeerLive ==
    /\ InitPeer
    /\ [][NextPeer]_vars
    /\ WF_vars(check_for_inactive_clients)
    /\ WF_vars(serve)
    /\ WF_vars(authenticate_response)
    /\ WF_vars(command_response)
    /\ WF_vars(send_heartbeat)

(* ---------------- properties ---------------- *)

\* a datagram has just been routed to this handler and handled
Handled(handler) == pc = "sweep" /\ Route(message) = handler

\* this step receives a datagram and routes it to this handler
Handles(handler) == pc = "recv" /\ pc' = "sweep" /\ Route(message') = handler

\* tokens of an MSG_AUTH datagram
AuthParts(m) == Split(m)

\* the credential table maps username to exactly this password
InTable(username, password) ==
    \E u \in DOMAIN credentials : u = username /\ credentials[u] = password

\* some session of the Session Directory binds username
Bound(username) ==
    \E i \in DOMAIN active_clients : active_clients[i].username = username

\* a session of clients binds username at an address other than addr
BoundElsewhere(clients, username, addr) ==
    \E i \in DOMAIN clients :
        clients[i].username = username /\ clients[i].addr # addr

\* C1: in every reachable state no two entries of the Session Directory
\* carry the same username.
C1_UniqueUsernames ==
    \A i, j \in DOMAIN active_clients :
        i # j => active_clients[i].username # active_clients[j].username

\* two sessions are active, and an MSG_AUTH for the username of the other one
\* has just been refused
C1_Witness ==
    /\ Handled("auth")
    /\ Len(active_clients) = 2
    /\ Len(AuthParts(message)) = 3
    /\ BoundElsewhere(active_clients, AuthParts(message)[2], client_address)
    /\ HasClient(active_clients, client_address)

\* C2: an MSG_AUTH for a username bound to a different active address is
\* answered ERR and leaves the Session Directory as it was, whatever the
\* password.
C2_DuplicateAuthRejected ==
    [][ ( /\ Handles("auth")
          /\ Len(AuthParts(message')) = 3
          /\ BoundElsewhere(active_clients, AuthParts(message')[2], client_address') )
        => ( /\ sent' = <<MSG_ERROR>>
             /\ active_clients' = active_clients ) ]_vars

\* an MSG_AUTH with the right password for a username held by another address
\* has just been refused
C2_Witness ==
    /\ Handled("auth")
    /\ Len(AuthParts(message)) = 3
    /\ InTable(AuthParts(message)[2], AuthParts(message)[3])
    /\ BoundElsewhere(active_clients, AuthParts(message)[2], client_address)
    /\ ~HasClient(active_clients, client_address)
    /\ sent = <<MSG_ERROR>>

\* the session an accepted MSG_AUTH leaves for the requesting address
AuthAccepted ==
    /\ sent' = <<MSG_OK>>
    /\ HasClient(active_clients', client_address')
    /\ ClientOf(active_clients', client_address').username = AuthParts(message')[2]
    /\ ClientOf(active_clients', client_address').last_heartbeat = now

\* a well-formed auth <username> <password> with the table's password
ValidAuth(m) ==
    /\ Len(AuthParts(m)) = 3
    /\ AuthParts(m)[1] = MSG_AUTH
    /\ InTable(AuthParts(m)[2], AuthParts(m)[3])

\* C3 as stated: a well-formed MSG_AUTH with matching credentials whose username
\* is not active under a different address (the requester's own address may
\* hold it) is answered OK and leaves a fresh session.
C3_Original ==
    [][ ( /\ Handles("auth")
          /\ ValidAuth(message')
          /\ ~BoundElsewhere(active_clients, AuthParts(message')[2], client_address') )
        => AuthAccepted ]_vars

\* C3 amended: a well-formed MSG_AUTH with matching credentials whose username
\* is not active under any address, the requester's own included, is answered
\* OK and leaves a session for the address with that username and a fresh
\* last_heartbeat.
C3_ValidAuthAccepted ==
    [][ ( /\ Handles("auth")
          /\ ValidAuth(message')
          /\ ~Bound(AuthParts(message')[2]) )
        => AuthAccepted ]_vars

\* a valid MSG_AUTH has just been accepted after the clock has advanced, while
\* another session exists
C3_Witness ==
    /\ Handled("auth")
    /\ ValidAuth(message)
    /\ sent = <<MSG_OK>>
    /\ now > 0
    /\ Len(active_clients) = 2
    /\ ClientOf(active_clients, client_address).last_heartbeat = now

\* C4: an MSG_AUTH whose credentials do not match the table, or with a token
\* count other than three, is answered ERR and leaves the Session Directory
\* and the Publication Registry as they were.
C4_BadAuthRejected ==
    [][ ( /\ Handles("auth")
          /\ \/ Len(AuthParts(message')) # 3
             \/ ~InTable(AuthParts(message')[2], AuthParts(message')[3]) )
        => ( /\ sent' = <<MSG_ERROR>>
             /\ active_clients' = active_clients
             /\ published_files' = published_files ) ]_vars

\* an MSG_AUTH with a wrong password for a username nobody holds has just been
\* refused, with sessions and publications present
C4_Witness ==
    /\ Handled("auth")
    /\ Len(AuthParts(message)) = 3
    /\ AuthParts(message)[2] \in DOMAIN credentials
    /\ ~InTable(AuthParts(message)[2], AuthParts(message)[3])
    /\ ~Bound(AuthParts(message)[2])
    /\ active_clients # <<>>
    /\ published_files # <<>>
    /\ sent = <<MSG_ERROR>>

\* C5: a sweep removes exactly the sessions whose age is strictly greater
\* than the timeout: each of them is absent afterwards, every session whose
\* age is at most the timeout is kept as it was, and nothing is added.
C5_SweepRemovesExactlyStale ==
    [][ (pc = "sweep" /\ pc' = "recv")
        => /\ \A i \in DOMAIN active_clients :
                IF now - active_clients[i].last_heartbeat > HEARTBEAT_TIMEOUT
                THEN ~HasClient(active_clients', active_clients[i].addr)
                ELSE InList(active_clients[i], active_clients')
           /\ \A j \in DOMAIN active_clients' :
                InList(active_clients'[j], active_clients) ]_vars

\* a sweep has just removed one session and kept another
C5_Witness ==
    /\ pc = "recv"
    /\ inactive_clients # <<>>
    /\ active_clients # <<>>

\* the filename a GET datagram asks for
GetFilename == parse_command(message)[2]

\* the username of the address that sent the datagram being handled
Requester == ClientOf(active_clients, client_address).username

\* the reply to a GET carries a peer's address
IsAddressReply ==
    /\ sent # <<>>
    /\ sent[1] \notin {RESP_FILE_NOT_FOUND, RESP_NO_ACTIVE_PEER_HAS_FILE}

\* username has a session with a data endpoint set
HasEndpoint(username) ==
    \E i \in DOMAIN active_clients :
        /\ active_clients[i].username = username
        /\ active_clients[i].tcp_address # <<>>

\* every session of username is older than the timeout or has no endpoint
\* (true when it has no session)
Unreachable(username) ==
    \A i \in DOMAIN active_clients :
        active_clients[i].username = username
        => \/ now - active_clients[i].last_heartbeat > HEARTBEAT_TIMEOUT
           \/ active_clients[i].tcp_address = <<>>

\* C6 as stated, for a requester that has a session: when every publisher
\* of the filename other than the requester has no session, a session whose
\* last heartbeat is older than the timeout, or no data endpoint, GET is
\* answered "No active peer has this file".
C6_Original ==
    ( /\ Handled("get")
      /\ HasClient(active_clients, client_address)
      /\ HasFile(published_files, GetFilename)
      /\ \A k \in DOMAIN PublishersOf(published_files, GetFilename) :
            LET p == PublishersOf(published_files, GetFilename)[k]
            IN p # Requester => Unreachable(p) )
    => sent = <<RESP_NO_ACTIVE_PEER_HAS_FILE>>

\* C7 as stated: whatever the state of the requesting address, GET is
\* answered "File not found" exactly when the filename has no entry in the
\* Publication Registry.
C7_Original ==
    Handled("get")
    => (sent = <<RESP_FILE_NOT_FOUND>> <=> ~HasFile(published_files, GetFilename))

\* the endpoint reply of GET names the first publisher, in publication
\* order, that is not the requester and has a session with an endpoint
FirstServingPublisherNamed ==
    ( /\ Handled("get")
      /\ HasClient(active_clients, client_address)
      /\ IsAddressReply )
    => /\ HasFile(published_files, GetFilename)
       /\ LET pubs == PublishersOf(published_files, GetFilename) IN
          \E k \in DOMAIN pubs :
             /\ pubs[k] # Requester
             /\ \E i \in DOMAIN active_clients :
                   /\ active_clients[i].username = pubs[k]
                   /\ active_clients[i].tcp_address # <<>>
                   /\ sent = << pubs[k] \o <<" ">>
                                \o active_clients[i].tcp_address[1] \o <<" ">>
                                \o active_clients[i].tcp_address[2] >>
             /\ \A j \in 1..(k - 1) :
                   pubs[j] = Requester \/ ~HasEndpoint(pubs[j])

\* this step creates the session of addr anew
CreatedBy(addr) ==
    /\ Handles("auth")
    /\ sent' = <<MSG_OK>>
    /\ client_address' = addr

\* this step handles a report of exactly a host and a port from addr
ReportFrom(addr) ==
    /\ Handles("TCP")
    /\ Len(Split(message')) = 3
    /\ client_address' = addr

\* a report from a session's address stores the reported endpoint; any other
\* step leaves the endpoint of a session that continues as it was
ReportStored ==
    \A i \in DOMAIN active_clients' :
        LET s2 == active_clients'[i] IN
        HasClient(active_clients, s2.addr) /\ ~CreatedBy(s2.addr)
        => IF ReportFrom(s2.addr)
           THEN s2.tcp_address = <<Split(message')[2], Split(message')[3]>>
           ELSE s2.tcp_address = ClientOf(active_clients, s2.addr).tcp_address

\* C8: when GET from an authenticated requester replies with an address, it
\* names the first publisher of the filename, in publication order, that is
\* not the requester and has a session with a data endpoint, and the host
\* and port are the endpoint that session reported last.
C8_FirstServingPublisher ==
    []FirstServingPublisherNamed /\ [][ReportStored]_vars

\* GET has just named one of two serving publishers, with the endpoint it
\* reported second
C8_Witness ==
    /\ Handled("get")
    /\ HasClient(active_clients, client_address)
    /\ IsAddressReply
    /\ LET pubs == PublishersOf(published_files, GetFilename) IN
       Cardinality({k \in DOMAIN pubs :
                       pubs[k] # Requester /\ HasEndpoint(pubs[k])}) = 2
    /\ Split(sent[1])[3] = <<"9">>

\* the publisher a GET reply names has a session with an endpoint set
NamedPeerHasEndpoint ==
    (Handled("get") /\ IsAddressReply) => HasEndpoint(Split(sent[1])[1])

\* a session has an endpoint only if this step handles a report from its
\* address, or it had one before and is not created anew by this step
EndpointOnlyByReport ==
    \A i \in DOMAIN active_clients' :
        LET s2 == active_clients'[i] IN
        s2.tcp_address # <<>>
        => /\ HasClient(active_clients, s2.addr)
           /\ ClientOf(active_clients, s2.addr).username = s2.username
           /\ ~CreatedBy(s2.addr)
           /\ \/ ReportFrom(s2.addr)
              \/ ClientOf(active_clients, s2.addr).tcp_address # <<>>

\* C9: a GET reply names only a publisher whose current session has handled
\* an endpoint report after the MSG_AUTH that created it: a session created by
\* MSG_AUTH has no endpoint, and only a report from its address gives it one.
C9_ReportBeforeDiscovery ==
    []NamedPeerHasEndpoint /\ [][EndpointOnlyByReport]_vars

\* GET has just named a publisher whose session was created after the long
\* wait, hence has reported its endpoint since
C9_Witness ==
    /\ Handled("get")
    /\ IsAddressReply
    /\ now > HEARTBEAT_TIMEOUT
    /\ \E i \in DOMAIN active_clients :
          /\ active_clients[i].username = Split(sent[1])[1]
          /\ active_clients[i].last_heartbeat = now

\* C10: every filename in the Publication Registry has at least one
\* publisher.
C10_NoEmptyEntry ==
    \A i \in DOMAIN published_files : published_files[i].publishers # <<>>

\* an UNPUBLISH by the last publisher has just removed the entry
C10_Witness ==
    /\ Handled("unp")
    /\ sent = <<RESP_FILE_UNPUBLISHED>>
    /\ ~HasFile(published_files, parse_command(message)[2])

-----------------------------------------------------------------------------
\* The File Registry

\* the argument of the request this step receives
Argument == parse_command(message')[2]

\* the username of the session the request of this step comes from
Sender == ClientOf(active_clients, client_address').username

\* this step receives a request of this kind from an address with a session
HandlesFrom(handler) ==
    Handles(handler) /\ HasClient(active_clients, client_address')

\* the filenames that are keys of the registry
Filenames(files) == { files[i].filename : i \in DOMAIN files }

\* the publishers of a filename as a set, empty for a filename without entry
PublisherSet(files, filename) ==
    UNION { { files[i].publishers[j] : j \in DOMAIN files[i].publishers } :
            i \in { k \in DOMAIN files : files[k].filename = filename } }

\* no filename is a key twice and no entry lists a username twice
NoDuplicates ==
    /\ \A i, k \in DOMAIN published_files :
          i # k => published_files[i].filename # published_files[k].filename
    /\ \A i \in DOMAIN published_files :
          \A j, k \in DOMAIN published_files[i].publishers :
             j # k => published_files[i].publishers[j] # published_files[i].publishers[k]

\* every step acts on the publisher sets as on reference sets: a PUBLISH
\* inserts the sender into the set of its filename, an UNPUBLISH deletes the
\* sender from it (no change when absent), and nothing else changes any set
ReferenceSetStep ==
    LET named == IF Handles("pub") \/ Handles("unp") THEN {Argument} ELSE {}
        all == Filenames(published_files) \cup Filenames(published_files') \cup named
    IN \A f \in all :
          PublisherSet(published_files', f) =
             IF HandlesFrom("pub") /\ f = Argument
             THEN PublisherSet(published_files, f) \cup {Sender}
             ELSE IF HandlesFrom("unp") /\ f = Argument
                  THEN PublisherSet(published_files, f) \ {Sender}
                  ELSE PublisherSet(published_files, f)

\* C11: over every sequence of PUBLISH and UNPUBLISH requests the publishers
\* of each filename, as a set, follow the reference set (insert on publish,
\* delete on unpublish, no change when the member is absent), and no
\* publisher list ever holds a username twice
C11_PublishersFollowReferenceSet ==
    []NoDuplicates /\ [][ReferenceSetStep]_vars

\* an UNPUBLISH has deleted one of two publishers of a file while the
\* registry holds a second file
C11_Witness ==
    /\ Handled("unp")
    /\ sent = <<RESP_FILE_UNPUBLISHED>>
    /\ HasFile(published_files, parse_command(message)[2])
    /\ Len(published_files) = 2

\* this step handles an UNPUBLISH that immediately follows a PUBLISH of the
\* same filename from the same address, both under a session
UnpublishRightAfterPublish ==
    /\ HandlesFrom("unp")
    /\ last_publish # <<>>
    /\ last_publish[1] = client_address'
    /\ last_publish[2] = Argument
    /\ last_publish[3] \in {"once", "again"}

\* C12 as stated: after a PUBLISH of f by u immediately followed by an
\* UNPUBLISH of f by u, f is not a key of the registry
C12_Original ==
    [][UnpublishRightAfterPublish => ~HasFile(published_files', Argument)]_vars

\* C12, amended: after a PUBLISH of f by u immediately followed by an UNPUBLISH
\* of f by u, the UNPUBLISH is answered with RESP_FILE_UNPUBLISHED, u is not
\* among the publishers of f, and f is absent from the registry keys exactly
\* when no other user publishes f
C12_WithdrawnUnlessShared ==
    [][UnpublishRightAfterPublish =>
         /\ sent' = <<RESP_FILE_UNPUBLISHED>>
         /\ Sender \notin PublisherSet(published_files', Argument)
         /\ HasFile(published_files', Argument)
               <=> PublisherSet(published_files, Argument) \ {Sender} # {}
         /\ PublisherSet(published_files', Argument)
               = PublisherSet(published_files, Argument) \ {Sender}]_vars

\* a PUBLISH and the UNPUBLISH right after it have been handled and the
\* filename is no longer a key of the registry
C12_Witness ==
    /\ Handled("unp")
    /\ last_publish # <<>>
    /\ last_publish[3] = "withdrawn"
    /\ ~HasFile(published_files, last_publish[2])
    /\ published_files # <<>>

\* this step handles a PUBLISH that immediately follows a PUBLISH of the same
\* filename from the same address, both under a session
PublishRightAfterPublish ==
    /\ HandlesFrom("pub")
    /\ last_publish # <<>>
    /\ last_publish[1] = client_address'
    /\ last_publish[2] = Argument
    /\ last_publish[3] \in {"once", "again"}

\* C13: a PUBLISH from an address with a session is always answered with
\* RESP_FILE_PUBLISHED and leaves the sender among the publishers of the
\* filename; a PUBLISH issued right after the same PUBLISH leaves the
\* registry as the first one left it
C13_PublishSucceedsIdempotent ==
    [][HandlesFrom("pub") =>
         /\ sent' = <<RESP_FILE_PUBLISHED>>
         /\ fault' = FALSE
         /\ Sender \in PublisherSet(published_files', Argument)
         /\ PublishRightAfterPublish => published_files' = published_files]_vars

\* the same PUBLISH has been handled twice in a row for a file that another
\* user publishes too
C13_Witness ==
    /\ Handled("pub")
    /\ sent = <<RESP_FILE_PUBLISHED>>
    /\ last_publish # <<>>
    /\ last_publish[3] = "again"
    /\ Len(PublishersOf(published_files, last_publish[2])) = 2

\* C14: an UNPUBLISH from a session is answered with RESP_FILE_UNPUBLISHED
\* exactly when the sender was among the publishers of the filename just
\* before, otherwise with RESP_FILE_UNPUB_FAILED and the registry is left as
\* it was; no UNPUBLISH removes a publication of another user or of another
\* filename
C14_UnpublishOnlyOwn ==
    [][HandlesFrom("unp") =>
         LET was == Sender \in PublisherSet(published_files, Argument)
         IN /\ sent' = << IF was THEN RESP_FILE_UNPUBLISHED
                                 ELSE RESP_FILE_UNPUB_FAILED >>
            /\ ~was => published_files' = published_files
            /\ \A f \in Filenames(published_files) :
                  /\ PublisherSet(published_files, f) \ {Sender}
                        \subseteq PublisherSet(published_files', f)
                  /\ f # Argument =>
                        PublisherSet(published_files', f) = PublisherSet(published_files, f)]_vars

\* an UNPUBLISH of a file that only another user publishes has been refused
C14_Witness ==
    /\ Handled("unp")
    /\ sent = <<RESP_FILE_UNPUB_FAILED>>
    /\ HasClient(active_clients, client_address)
    /\ HasFile(published_files, parse_command(message)[2])

\* the filenames of registry entries, in registry order
NamesOf(entries) == [i \in DOMAIN entries |-> entries[i].filename]

\* the reply that carries a list of names, the sentinel for the empty list
ListReply(names, sentinel) ==
    << IF names = <<>> THEN sentinel ELSE Join(<<",", " ">>, names) >>

\* registry entries whose filename contains the substring of this step's
\* SEARCH and that some user other than the sender publishes
SharedOrForeign ==
    LET Keep(e) == /\ Contains(e.filename, Argument)
                   /\ PublisherSet(published_files, e.filename) \ {Sender} # {}
    IN SelectSeq(published_files, Keep)

\* registry entries whose filename contains the substring of this step's
\* SEARCH and that the sender does not publish
Foreign ==
    LET Keep(e) == /\ Contains(e.filename, Argument)
                   /\ Sender \notin PublisherSet(published_files, e.filename)
    IN SelectSeq(published_files, Keep)

\* C15 as stated: a SEARCH from a session returns exactly the filenames that
\* contain the substring and have a publisher other than the sender, a file
\* of the sender and another user included, and the reply is
\* RESP_NO_FILES_FOUND exactly when there is no such filename
C15_Original ==
    [][HandlesFrom("sch") =>
         /\ sent' = ListReply(NamesOf(SharedOrForeign), RESP_NO_FILES_FOUND)
         /\ sent' = <<RESP_NO_FILES_FOUND>> <=> SharedOrForeign = <<>>]_vars

\* C15, amended: a SEARCH from a session returns exactly the filenames that
\* contain the substring and do not have the sender among their publishers,
\* joined in registry order, and the reply is RESP_NO_FILES_FOUND whenever
\* there is no such filename
C15_SearchReturnsForeignMatches ==
    [][HandlesFrom("sch") =>
         /\ sent' = ListReply(NamesOf(Foreign), RESP_NO_FILES_FOUND)
         /\ Foreign = <<>> => sent' = <<RESP_NO_FILES_FOUND>>]_vars

\* a SEARCH has been answered with one filename while the registry holds a
\* matching file that the sender publishes together with another user
C15_Witness ==
    /\ Handled("sch")
    /\ HasClient(active_clients, client_address)
    /\ sent = <<FileFG>>
    /\ HasFile(published_files, FileF)
    /\ Len(PublishersOf(published_files, FileF)) = 2
    /\ parse_command(message)[2] = <<"f">>

\* C16: the names a SEARCH reply shows are registry filenames that contain
\* the substring exactly, case included, and none of them is published by
\* the sender alone
C16_SearchNeverOwnNeverUnmatched ==
    [][HandlesFrom("sch") =>
         /\ Len(sent') = 1
         /\ \A name \in Shown(sent'[1], RESP_NO_FILES_FOUND) :
               /\ name \in Filenames(published_files)
               /\ \E i \in 0..(Len(name) - Len(Argument)) :
                     \A k \in 1..Len(Argument) : name[i + k] = Argument[k]
               /\ PublisherSet(published_files, name) # {Sender}]_vars

\* alice has searched for a substring of both filenames while she alone
\* publishes one of them, and the reply names only the other one
C16_Witness ==
    /\ Handled("sch")
    /\ client_address = "A1"
    /\ HasClient(active_clients, "A1")
    /\ parse_command(message)[2] = <<"f">>
    /\ HasFile(published_files, FileF)
    /\ PublishersOf(published_files, FileF) = <<alice>>
    /\ sent = <<FileFG>>

\* this step is the sweep of check_for_inactive_clients
SweepStep == pc = "sweep" /\ pc' = "recv"

\* C17: the sweep leaves the registry as it is; a username leaves the
\* publishers of a filename only by an UNPUBLISH of that filename from the
\* session of that user; and the reply to a listing is made of all registry
\* keys, whether or not their publishers have a session
C17_SweepKeepsRegistry ==
    [][/\ SweepStep => published_files' = published_files
       /\ \A f \in Filenames(published_files) :
             \A u \in PublisherSet(published_files, f) :
                u \notin PublisherSet(published_files', f) =>
                   HandlesFrom("unp") /\ Sender = u /\ Argument = f
       /\ HandlesFrom("lpf") =>
             sent' = ListReply(NamesOf(published_files), RESP_NO_PUBLISHED_FILES)]_vars

\* a listing names a file whose every publisher has lost its session
C17_Witness ==
    /\ Handled("lpf")
    /\ sent = <<FileF>>
    /\ HasFile(published_files, FileF)
    /\ \A i \in DOMAIN active_clients :
          active_clients[i].username \notin PublisherSet(published_files, FileF)

\* C18: a GET leaves the registry and the session table as they are, whatever
\* its outcome: an address reply, RESP_FILE_NOT_FOUND,
\* RESP_NO_ACTIVE_PEER_HAS_FILE, or no reply at all
C18_GetChangesNothing ==
    [][Handles("get") =>
         /\ published_files' = published_files
         /\ active_clients' = active_clients]_vars

\* a GET has been answered RESP_NO_ACTIVE_PEER_HAS_FILE for a file that has a
\* publisher without a session, and the publisher is still listed
C18_Witness ==
    /\ Handled("get")
    /\ sent = <<RESP_NO_ACTIVE_PEER_HAS_FILE>>
    /\ HasFile(published_files, FileF)
    /\ \E u \in PublisherSet(published_files, FileF) :
          \A i \in DOMAIN active_clients : active_clients[i].username # u

-----------------------------------------------------------------------------
\* The listings

\* the usernames of the sessions held by addresses other than the sender's
OtherUsernames ==
    { active_clients[i].username :
        i \in { k \in DOMAIN active_clients :
                  active_clients[k].addr # client_address' } }

\* C19: the names a LIST_PEERS reply shows to a requester with a session are
\* exactly the usernames of all other sessions, with or without a reported
\* endpoint, never the requester's own, and the reply is RESP_NO_ACTIVE_PEERS
\* exactly when there is no other session
C19_ListPeersExactlyOthers ==
    [][HandlesFrom("lap") =>
         /\ Len(sent') = 1
         /\ Shown(sent'[1], RESP_NO_ACTIVE_PEERS) = OtherUsernames
         /\ Sender \notin Shown(sent'[1], RESP_NO_ACTIVE_PEERS)
         /\ sent' = <<RESP_NO_ACTIVE_PEERS>> <=> OtherUsernames = {}]_vars

\* a LIST_PEERS reply names two peers, one of which has reported no endpoint
C19_Witness ==
    /\ Handled("lap")
    /\ Len(active_clients) = 3
    /\ Cardinality(Shown(sent[1], RESP_NO_ACTIVE_PEERS)) = 2
    /\ \E i \in DOMAIN active_clients :
          /\ active_clients[i].addr # client_address
          /\ active_clients[i].tcp_address = <<>>

\* C20 as stated: the reply to a LIST_FILES from a session is
\* RESP_NO_PUBLISHED_FILES if and only if the registry is empty, and for a
\* registry that is not empty the names the reply shows include every
\* registry key
C20_Original ==
    [][HandlesFrom("lpf") =>
         /\ sent' = <<RESP_NO_PUBLISHED_FILES>> <=> published_files = <<>>
         /\ published_files # <<>> =>
               Filenames(published_files)
                  \subseteq Shown(sent'[1], RESP_NO_PUBLISHED_FILES)]_vars

-----------------------------------------------------------------------------
\* Heartbeats, endpoint reports and dispatch

\* C21: a HEARTBEAT is never answered; from an address without a session it
\* changes nothing; from an address with a session it sets the
\* last_heartbeat of that session to the current time and leaves its
\* username, its endpoint, every other session and the registry as they were
C21_HeartbeatOnlyRefreshes ==
    [][Handles("HBT") =>
         /\ sent' = <<>>
         /\ published_files' = published_files
         /\ IF HasClient(active_clients, client_address')
            THEN /\ Len(active_clients') = Len(active_clients)
                 /\ \A i \in DOMAIN active_clients :
                       active_clients'[i] =
                          IF active_clients[i].addr = client_address'
                          THEN [active_clients[i] EXCEPT !.last_heartbeat = now]
                          ELSE active_clients[i]
            ELSE active_clients' = active_clients]_vars

\* a heartbeat has refreshed a session that holds an endpoint while another
\* session keeps its older timestamp
C21_Witness ==
    /\ Handled("HBT")
    /\ sent = <<>>
    /\ Len(active_clients) = 2
    /\ \E i, j \in DOMAIN active_clients :
          /\ active_clients[i].addr = client_address
          /\ active_clients[i].last_heartbeat = now
          /\ active_clients[i].tcp_address # <<>>
          /\ active_clients[j].last_heartbeat < now

\* C22: an endpoint report is never answered; a report that is not exactly
\* the command, a host token and a port token, or that comes from an address
\* without a session, changes no state; a well-formed report from a session
\* changes only the endpoint of that session
C22_ReportOnlySetsEndpoint ==
    [][Handles("TCP") =>
         LET parts == Split(message')
             wellformed == Len(parts) = 3
         IN /\ sent' = <<>>
            /\ published_files' = published_files
            /\ IF wellformed /\ HasClient(active_clients, client_address')
               THEN /\ Len(active_clients') = Len(active_clients)
                    /\ \A i \in DOMAIN active_clients :
                          active_clients'[i] =
                             IF active_clients[i].addr = client_address'
                             THEN [active_clients[i] EXCEPT
                                     !.tcp_address = <<parts[2], parts[3]>>]
                             ELSE active_clients[i]
               ELSE active_clients' = active_clients]_vars

\* a report without a port has been discarded: the session of the sender
\* still holds the endpoint it reported earlier
C22_Witness ==
    /\ Handled("TCP")
    /\ Len(Split(message)) = 2
    /\ sent = <<>>
    /\ \E i \in DOMAIN active_clients :
          /\ active_clients[i].addr = client_address
          /\ active_clients[i].tcp_address = <<Host, <<"8">>>>

\* this step receives a datagram and handles it
Received == pc = "recv" /\ pc' = "sweep"

\* the leading space-separated token of a message
LeadingToken(m) == parse_command(m)[1]

\* the command literals of the protocol
Literals ==
    { MSG_AUTH, MSG_HEARTBEAT, MSG_TCP, CMD_LIST_ACTIVE_PEERS,
      CMD_LIST_PUBLISHED_FILES, CMD_PUBLISH, CMD_UNPUBLISH, CMD_SEARCH, CMD_GET }

\* C23 as stated: every datagram whose leading token is none of the command
\* literals is answered with MSG_ERROR and changes neither the session table
\* nor the registry
C23_Original ==
    [][Received /\ LeadingToken(message') \notin Literals =>
         /\ sent' = <<MSG_ERROR>>
         /\ active_clients' = active_clients
         /\ published_files' = published_files]_vars

\* this step receives one of the command requests lap, lpf, pub, unp, sch, get
HandlesCommand ==
    \E h \in {"lap", "lpf", "pub", "unp", "sch", "get"} : Handles(h)

\* this step receives a request that is malformed: an AUTH or an endpoint
\* report without exactly three tokens, or a datagram routed to no handler
HandlesMalformed ==
    \/ Handles("auth") /\ Len(Split(message')) # 3
    \/ Handles("TCP") /\ Len(Split(message')) # 3
    \/ Handles("unknown")

\* C24 as stated: every malformed request and every command request from an
\* address without a session is answered with the error token MSG_ERROR; none
\* is left without a reply
C24_Original ==
    [][HandlesMalformed \/ (HandlesCommand /\ ~HasClient(active_clients, client_address'))
          => sent' = <<MSG_ERROR>>]_vars

\* C25: a message from an address without a session, unless it is an AUTH
\* that is accepted, leaves the session table and the registry exactly as
\* they were
C25_NoSessionNoEffect ==
    [][/\ Received
       /\ ~HasClient(active_clients, client_address')
       /\ ~(Handles("auth") /\ sent' = <<MSG_OK>>)
       => /\ active_clients' = active_clients
          /\ published_files' = published_files]_vars

\* a PUBLISH from an address without a session has been ignored while
\* another address holds a session and the registry holds a file
C25_Witness ==
    /\ Handled("pub")
    /\ ~HasClient(active_clients, client_address)
    /\ sent = <<>>
    /\ active_clients # <<>>
    /\ published_files # <<>>

-----------------------------------------------------------------------------
\* The control loop

Expired(data) == now - data.last_heartbeat > HEARTBEAT_TIMEOUT

\* C27 as stated: when a datagram is dispatched the session table holds no
\* session older than the timeout, so no handler reads or refreshes one, and
\* a heartbeat that arrives after the timeout does not revive its session
C27_Original ==
    [][Received =>
         /\ \A i \in DOMAIN active_clients : ~Expired(active_clients[i])
         /\ \A i \in DOMAIN active_clients' :
               /\ Handles("HBT")
               /\ active_clients'[i].addr = client_address'
               => \A k \in DOMAIN active_clients :
                     active_clients[k].addr = client_address'
                        => ~Expired(active_clients[k])]_vars

\* C28 as stated: a session that is not older than the timeout stays in the
\* session table with its username through every step but the sweep,
\* whatever message is handled, an AUTH from its own address included
C28_Original ==
    [][~SweepStep =>
         \A i \in DOMAIN active_clients :
            ~Expired(active_clients[i]) =>
               \E k \in DOMAIN active_clients' :
                  /\ active_clients'[k].addr = active_clients[i].addr
                  /\ active_clients'[k].username = active_clients[i].username]_vars

\* C29: the last_heartbeat of the session of an address changes only by a
\* HEARTBEAT from that address or by an accepted AUTH from it; command
\* requests and endpoint reports leave every last_heartbeat as it was, and
\* the sweep removes every session older than the timeout, whatever
\* commands it has issued
C29_OnlyHeartbeatRefreshes ==
    [][/\ \A i \in DOMAIN active_clients, k \in DOMAIN active_clients' :
             /\ active_clients'[k].addr = active_clients[i].addr
             /\ active_clients'[k].last_heartbeat # active_clients[i].last_heartbeat
             => /\ client_address' = active_clients[i].addr
                /\ Handles("HBT") \/ (Handles("auth") /\ sent' = <<MSG_OK>>)
       /\ HandlesCommand \/ Handles("TCP") =>
             /\ Len(active_clients') = Len(active_clients)
             /\ \A i \in DOMAIN active_clients :
                   active_clients'[i].last_heartbeat = active_clients[i].last_heartbeat
       /\ SweepStep =>
             \A k \in DOMAIN active_clients' :
                now - active_clients'[k].last_heartbeat <= HEARTBEAT_TIMEOUT]_vars

\* a PUBLISH from a session older than the timeout has been answered and the
\* session still carries its old last_heartbeat
C29_Witness ==
    /\ Handled("pub")
    /\ sent = <<RESP_FILE_PUBLISHED>>
    /\ \E i \in DOMAIN active_clients :
          /\ active_clients[i].addr = client_address
          /\ Expired(active_clients[i])

\* the command requests among the datagrams of a wire
CommandsOn(wire) ==
    LET IsCommand(m) == Route(Strip(m)) \in {"lap", "lpf", "pub", "unp", "sch", "get"}
    IN SelectSeq(wire, IsCommand)

\* C30: with the heartbeat thread and the command loop of a peer sending on
\* one socket, the server sends exactly one datagram for each command request
\* (lap, lpf, pub, unp, sch, get) from an address with a session and none
\* for a HEARTBEAT or an endpoint report; at the prompt no reply and no
\* command request of the peer is under way, while it waits at most one of
\* the two is, and every reply the command loop takes from the socket was
\* caused by the request it is waiting for
C30_RepliesPairWithRequests ==
    /\ [](/\ peer.main = "prompt" =>
              peer.inbox = <<>> /\ CommandsOn(peer.wire) = <<>>
          /\ peer.main = "reply_wait" =>
              /\ Len(peer.inbox) + Len(CommandsOn(peer.wire)) <= 1
              /\ CommandsOn(peer.wire) \in {<<>>, <<peer.request>>})
    /\ [][/\ HandlesCommand /\ HasClient(active_clients, client_address')
             => Len(sent') = 1
          /\ Handles("HBT") \/ Handles("TCP") => sent' = <<>>
          /\ peer.main = "reply_wait" /\ peer'.main # "reply_wait"
             => /\ Head(peer.inbox).to = peer.request
                /\ peer'.got = <<peer.request, Head(peer.inbox)>>
                /\ peer'.inbox = <<>>]_vars

\* the command loop has taken the reply to its PUBLISH; the server has since
\* handled a HEARTBEAT sent on the same socket and another is on its way
C30_Witness ==
    /\ peer.main = "prompt"
    /\ peer.got # <<>>
    /\ peer.got[1] = Cmd(CMD_PUBLISH, FileF)
    /\ peer.got[2].reply = RESP_FILE_PUBLISHED
    /\ Handled("HBT")
    /\ peer.wire = <<MSG_HEARTBEAT>>

\* C31 as stated: whenever the command loop waits for the reply to a
\* request, a reply to it eventually reaches the socket, whether or not the
\* session of the peer has expired in the meantime
C31_Original ==
    (peer.main = "reply_wait") ~> (peer.main = "reply_wait" /\ peer.inbox # <<>>)

\* the usernames listed as publishers of any filename
AllPublishers(files) == UNION { PublisherSet(files, f) : f \in Filenames(files) }

\* C32: every username bound to a session and every username among the
\* publishers of a filename is a key of the credential table; a username
\* comes to be bound at an address only by an AUTH from that address that
\* names it with exactly its password, and comes to be a publisher of a
\* filename only by a PUBLISH from the address whose session binds it
C32_OnlyAuthenticatedUsernames ==
    /\ [](/\ \A i \in DOMAIN active_clients :
                active_clients[i].username \in DOMAIN credentials
          /\ AllPublishers(published_files) \subseteq DOMAIN credentials)
    /\ [][/\ \A k \in DOMAIN active_clients' :
                (~\E i \in DOMAIN active_clients :
                     /\ active_clients[i].addr = active_clients'[k].addr
                     /\ active_clients[i].username = active_clients'[k].username)
                => /\ Handles("auth")
                   /\ client_address' = active_clients'[k].addr
                   /\ Len(AuthParts(message')) = 3
                   /\ AuthParts(message')[2] = active_clients'[k].username
                   /\ InTable(active_clients'[k].username, AuthParts(message')[3])
          /\ \A f \in Filenames(published_files') :
                \A u \in PublisherSet(published_files', f) \ PublisherSet(published_files, f) :
                   /\ Handles("pub")
                   /\ Argument = f
                   /\ \E i \in DOMAIN active_clients :
                         /\ active_clients[i].addr = client_address'
                         /\ active_clients[i].username = u]_vars

\* an AUTH naming a user that is no key of the table, with the password of
\* another user, has been refused while the registry lists a publisher whose
\* session is gone and another user holds a session
C32_Witness ==
    /\ Handled("auth")
    /\ Len(AuthParts(message)) = 3
    /\ AuthParts(message)[2] \notin DOMAIN credentials
    /\ \E u \in DOMAIN credentials : credentials[u] = AuthParts(message)[3]
    /\ sent = <<MSG_ERROR>>
    /\ \E u \in AllPublishers(published_files) : ~Bound(u)
    /\ active_clients # <<>>

====
